---- MODULE Spec2Model ----
(***************************************************************************)
(* A model of qutebrowser's completion models                              *)
(* (qutebrowser/models/completion.py) and of its main window               *)
(* (qutebrowser/widgets/mainwindow.py).                                    *)
(*                                                                         *)
(* Every object of the program is one variable holding a record of the     *)
(* object's fields.  There is one specification per group of classes       *)
(* (SpecSettings, SpecQuickmark, SpecCommand, SpecInit, SpecWindow); in    *)
(* each the objects of the other groups do not exist (they hold Absent).   *)
(***************************************************************************)
EXTENDS Integers, Sequences, FiniteSets, TLC

VARIABLES
    config,           \* the config registry: section -> option -> raw value
    option_model,     \* a SettingOptionCompletionModel
    value_model,      \* a SettingValueCompletionModel
    marks,            \* objreg.get('quickmark-manager').marks, in dict order
    quickmark_model,  \* a QuickmarkCompletionModel
    cmd_dict,         \* cmdutils.cmd_dict: name -> command object
    args_debug,       \* objreg.get('args').debug
    command_model,    \* a CommandCompletionModel
    stateconfig,      \* QCoreApplication.instance().stateconfig
    mainwindow,       \* the MainWindow
    last              \* what the latest operations did: the calls of the
                      \* last one, or the last two operations of the window

vars == <<config, option_model, value_model, marks, quickmark_model, cmd_dict,
          args_debug, command_model, stateconfig, mainwindow, last>>

\* The value of a variable whose object does not exist in a specification.
Absent == "absent"

\* Python's None.
None == "None"

\* What `last` holds when no operation has run yet.
NoCall == <<>>

----------------------------------------------------------------------------
(* The config registry, as the completion models use it.                   *)

\* Sections whose configdata object has a 'valtype' (ValueList): options can
\* be added to them at run time.
ValueListSections == {"aliases"}

\* The options a section may hold.
SectionOptions == [general |-> {"editor", "encoding"}, aliases |-> {"a", "b"}]

\* The order in which a section's keys() come.
KeyOrder == <<"editor", "encoding", "a", "b">>

\* Every option name.
KeyOrder_set == {KeyOrder[i] : i \in 1..Len(KeyOrder)}

\* The raw values an option may hold.
RawValues == {"", "x", "y"}

\* sectdata.descriptions, the lines of each description; ValueList sections
\* have none and "editor" has two lines.
Descriptions ==
    [general |-> [editor |-> <<"Editor to use.", "Use {} for the file.">>,
                  encoding |-> <<"Default encoding.">>]]

\* config.get(section, option, raw=True).  A key the section does not hold
\* (None, for a model built without an option) is defaulted to the empty
\* value.
ConfigGet(cfg, section, option) ==
    IF option \in DOMAIN cfg[section] THEN cfg[section][option] ELSE ""

\* config.set(section, option, value): the option's value is replaced; a
\* ValueList section gets the option when it does not hold it yet.
ConfigSet(cfg, section, option, value) ==
    [cfg EXCEPT ![section] =
        [o \in DOMAIN cfg[section] \cup {option} |->
            IF o = option THEN value ELSE cfg[section][o]]]

\* Whether config.set(section, option, ...) is accepted.
CanSet(cfg, section, option) ==
    /\ section \in DOMAIN cfg
    /\ \/ option \in DOMAIN cfg[section]
       \/ section \in ValueListSections /\ option \in SectionOptions[section]

\* sectdata.keys() as a sequence.
Keys(cfg, section) ==
    SelectSeq(KeyOrder, LAMBDA o : o \in DOMAIN cfg[section])

\* The configs the completion models may start from: "general" holds both of
\* its options, "aliases" any of its.
CompletionConfigs ==
    { [general |-> g, aliases |-> a] :
        g \in [SectionOptions.general -> RawValues],
        a \in UNION { [d -> {"x", "y"}] : d \in SUBSET SectionOptions.aliases } }

----------------------------------------------------------------------------
(* SettingOptionCompletionModel                                            *)

\* desc in __init__: the first line of the option's description, "" when the
\* section or the option has none.
OptionDesc(section, name) ==
    IF section \in DOMAIN Descriptions /\ name \in DOMAIN Descriptions[section]
    THEN Descriptions[section][name][1]
    ELSE ""

\* __init__(section): one row (name, desc, value) per key of the section, and
\* _misc_items naming each option's row.
SettingOptionInit(cfg, section) ==
    LET keys == Keys(cfg, section)
    IN  [section    |-> section,
         category   |-> section,
         rows       |-> [i \in 1..Len(keys) |->
                            [name |-> keys[i],
                             desc |-> OptionDesc(section, keys[i]),
                             misc |-> ConfigGet(cfg, section, keys[i])]],
         misc_items |-> [o \in {keys[i] : i \in 1..Len(keys)} |->
                            CHOOSE i \in 1..Len(keys) : keys[i] = o],
         raised     |-> "none"]

\* What a call of update_misc_column did.
MiscCall(section, option, logged, read, setData, raised) ==
    [op |-> "update_misc_column", section |-> section, option |-> option,
     logged |-> logged, read |-> read, setData |-> setData, raised |-> raised]

\* A faulty variant of update_misc_column: the item is not updated.
update_misc_column_stale(self, cfg, section, option, ok) ==
    [self |-> self,
     call |-> MiscCall(section, option, FALSE, TRUE, "ok", "none")]

\* A faulty variant of update_misc_column: an option without an item gets a new row.
update_misc_column_addrow(self, cfg, section, option, ok) ==
    LET val == ConfigGet(cfg, section, option)
    IN  IF option \notin DOMAIN self.misc_items
        THEN [self |-> [self EXCEPT
                          !.rows = Append(@, [name |-> option, desc |-> "",
                                              misc |-> val])],
              call |-> MiscCall(section, option, FALSE, TRUE, "none", "none")]
        ELSE [self |-> [self EXCEPT !.rows[self.misc_items[option]].misc = val],
              call |-> MiscCall(section, option, FALSE, TRUE, "ok", "none")]

\* update_misc_column(section, option), run with the config `cfg`; `ok` is
\* what setData returns.  The result is the model afterwards and what the
\* call did.
update_misc_column(self, cfg, section, option, ok) ==
    IF option \notin DOMAIN self.misc_items
    THEN \* KeyError: logged, and nothing else
         [self |-> self,
          call |-> MiscCall(section, option, TRUE, FALSE, "none", "none")]
    ELSE LET val == ConfigGet(cfg, section, option)
             idx == self.misc_items[option]
         IN  IF ok
             THEN [self |-> [self EXCEPT !.rows[idx].misc = val],
                   call |-> MiscCall(section, option, FALSE, TRUE, "ok",
                                     "none")]
             ELSE [self |-> [self EXCEPT !.raised = "ValueError"],
                   call |-> MiscCall(section, option, FALSE, TRUE, "failed",
                                     "ValueError")]

----------------------------------------------------------------------------
(* SettingValueCompletionModel                                             *)

\* "if not value: value = '""'".
CurrentText(value) == IF value = "" THEN "\"\"" ELSE value

\* typ.complete() / valtype.complete(): the allowed values with their
\* descriptions; no values stands for the None of a type that has none.
Complete(section, option) ==
    IF section = "general" /\ option = "encoding"
    THEN <<[name |-> "x", desc |-> "The x encoding"],
           [name |-> "y", desc |-> "The y encoding"]>>
    ELSE <<>>

\* The (section, option) pairs __init__ accepts: option may only be None for
\* a ValueList section (ValueError otherwise).
ValueModelKeys(cfg) ==
    { k \in (DOMAIN cfg) \X (KeyOrder_set \cup {None}) :
        \/ k[2] \in DOMAIN cfg[k[1]]
        \/ k[2] = None /\ k[1] \in ValueListSections }

\* __init__(section, option): the 'Current' category with its one item, and
\* the 'Allowed' category when the type has completions.
SettingValueInit(cfg, section, option) ==
    [section  |-> section,
     option   |-> option,
     cur_item |-> CurrentText(ConfigGet(cfg, section, option)),
     allowed  |-> Complete(section, option),
     raised   |-> "none"]

\* What a call of update_current_value did.
CurCall(section, option, setData, raised) ==
    [op |-> "update_current_value", section |-> section, option |-> option,
     logged |-> FALSE, read |-> TRUE, setData |-> setData, raised |-> raised]

\* A faulty variant of update_current_value: a failed setData is ignored.
update_current_value_noraise(self, cfg, section, option, ok) ==
    [self |-> self,
     call |-> CurCall(section, option, IF ok THEN "ok" ELSE "failed", "none")]

\* update_current_value(section, option), run with the config `cfg`; `ok` is
\* what setData returns.
update_current_value(self, cfg, section, option, ok) ==
    LET value == CurrentText(ConfigGet(cfg, section, option))
    IN  IF ok
        THEN [self |-> [self EXCEPT !.cur_item = value],
              call |-> CurCall(section, option, "ok", "none")]
        ELSE [self |-> [self EXCEPT !.raised = "ValueError"],
              call |-> CurCall(section, option, "failed", "ValueError")]

----------------------------------------------------------------------------
(* The settings completion: one SettingOptionCompletionModel and one        *)
(* SettingValueCompletionModel over the same config.                        *)

\* Whether a change handler registered with config.on_change(func, sectname,
\* optname) is called for a change of (section, option).
HandlerCalled(sectname, optname, section, option) ==
    /\ sectname = None \/ sectname = section
    /\ optname = None \/ optname = option

\* An exception left a change handler: config.set did not return.
Crashed ==
    option_model.raised # "none" \/ value_model.raised # "none"

InitSettings ==
    /\ config \in CompletionConfigs
    /\ \E section \in DOMAIN config :
          option_model = SettingOptionInit(config, section)
    /\ \E k \in ValueModelKeys(config) :
          value_model = SettingValueInit(config, k[1], k[2])
    /\ last = NoCall
    /\ marks = Absent /\ quickmark_model = Absent
    /\ cmd_dict = Absent /\ args_debug = Absent /\ command_model = Absent
    /\ stateconfig = Absent /\ mainwindow = Absent

\* config.set(section, option, value): the value is stored and the change
\* handlers run before set returns, in the order they were registered:
\* update_misc_column (registered for the option model's section), then
\* update_current_value (registered for the value model's section and
\* option).  A handler that raises ends the call.
ConfigChanged ==
    \E section \in DOMAIN config, option \in KeyOrder_set,
       value \in RawValues, ok1 \in BOOLEAN, ok2 \in BOOLEAN :
        LET cfg  == ConfigSet(config, section, option, value)
            call1 == HandlerCalled(option_model.section, None, section, option)
            r1   == update_misc_column(option_model, cfg, section, option, ok1)
            call2 == /\ HandlerCalled(value_model.section, value_model.option,
                                      section, option)
                     /\ (call1 => r1.call.raised = "none")
            r2   == update_current_value(value_model, cfg, section, option, ok2)
        IN  /\ ~Crashed
            /\ CanSet(config, section, option)
            /\ config' = cfg
            /\ option_model' = IF call1 THEN r1.self ELSE option_model
            /\ value_model' = IF call2 THEN r2.self ELSE value_model
            /\ last' = (IF call1 THEN <<r1.call>> ELSE <<>>)
                       \o (IF call2 THEN <<r2.call>> ELSE <<>>)
            /\ UNCHANGED <<marks, quickmark_model, cmd_dict, args_debug,
                           command_model, stateconfig, mainwindow>>

NextSettings == ConfigChanged

SpecSettings == InitSettings /\ [][NextSettings]_vars

\* C1: as long as no change handler raised, the value (misc) column of every
\* option row of the SettingOptionCompletionModel equals
\* config.get(section, option, raw=True), after construction and after every
\* config change.
C1_MiscColumnReflectsConfig ==
    option_model.raised = "none" =>
        \A i \in DOMAIN option_model.rows :
            option_model.rows[i].misc =
                ConfigGet(config, option_model.section,
                          option_model.rows[i].name)

\* C1's case: update_misc_column has set an item to a value it did not have
\* at construction (an alias starts non-empty).
C1_Witness ==
    /\ option_model.raised = "none"
    /\ \E c \in DOMAIN last :
          last[c].op = "update_misc_column" /\ last[c].setData = "ok"
    /\ \E i \in DOMAIN option_model.rows :
          /\ option_model.rows[i].name \in SectionOptions.aliases
          /\ option_model.rows[i].misc = ""

\* C2 as claimed: as long as no change handler raised, the item of the
\* 'Current' category shows the raw value of the (section, option) the model
\* was built for ('""' when it is empty), models built with option=None
\* included.
C2_CurrentShowsBuiltOption ==
    (option_model.raised = "none" /\ value_model.raised = "none") =>
        value_model.cur_item =
            CurrentText(ConfigGet(config, value_model.section,
                                  value_model.option))

\* C7: a call of update_misc_column for an option that has no entry in
\* _misc_items logs a debug message, does not read the config, does not
\* raise and leaves the model as it was.
C7_MissingItemIgnored ==
    [][\A c \in DOMAIN last' :
          (/\ last'[c].op = "update_misc_column"
           /\ last'[c].option \notin DOMAIN option_model.misc_items)
          => /\ last'[c].logged
             /\ ~last'[c].read
             /\ last'[c].setData = "none"
             /\ last'[c].raised = "none"
             /\ option_model' = option_model]_vars

\* C7's case: update_misc_column ran for an option that was added to the
\* section after the model was populated.
C7_Witness ==
    \E c \in DOMAIN last :
        /\ last[c].op = "update_misc_column"
        /\ last[c].option \notin DOMAIN option_model.misc_items
        /\ last[c].option \in DOMAIN config[option_model.section]

\* C8: update_misc_column and update_current_value raise ValueError exactly
\* when setData reported failure.
C8_ValueErrorIffSetDataFailed ==
    /\ \A c \in DOMAIN last :
          last[c].raised = "ValueError" <=> last[c].setData = "failed"
    /\ option_model.raised = "ValueError" <=>
          \E c \in DOMAIN last :
              last[c].op = "update_misc_column" /\ last[c].setData = "failed"
    /\ value_model.raised = "ValueError" <=>
          \E c \in DOMAIN last :
              last[c].op = "update_current_value" /\ last[c].setData = "failed"

\* C8's case: one config change ran both handlers; setData succeeded in
\* update_misc_column and failed in update_current_value.
C8_Witness ==
    /\ Len(last) = 2
    /\ last[1].op = "update_misc_column" /\ last[1].setData = "ok"
    /\ last[2].op = "update_current_value" /\ last[2].setData = "failed"
    /\ value_model.raised = "ValueError"

----------------------------------------------------------------------------
(* QuickmarkCompletionModel                                                *)

\* The most quickmarks the manager holds.
MaxMarks == 2

\* The most categories a QuickmarkCompletionModel is let grow to.
MaxCategories == 3

QuickmarkNames == {"g", "w"}
QuickmarkUrls == {"http://g/", "http://w/"}

\* The quickmark manager's marks: name -> url, kept in insertion order, a
\* name held once.
MarksValues ==
    { m \in UNION { [1..n -> [name : QuickmarkNames, url : QuickmarkUrls]] :
                    n \in 0..MaxMarks } :
        \A i, j \in DOMAIN m : m[i].name = m[j].name => i = j }

\* marks[name] = url.
MarksSet(m, name, url) ==
    IF \E i \in DOMAIN m : m[i].name = name
    THEN [i \in DOMAIN m |->
            IF m[i].name = name THEN [name |-> name, url |-> url] ELSE m[i]]
    ELSE Append(m, [name |-> name, url |-> url])

\* del marks[name].
MarksDel(m, name) == SelectSeq(m, LAMBDA e : e.name # name)

\* qmlist of _on_quickmarks_changed: (url, name) per mark, shown as the
\* row's name and description.
Qmlist(m) == [i \in DOMAIN m |-> [name |-> m[i].url, desc |-> m[i].name]]

\* _on_quickmarks_changed(): a new category "Quickmarks" with a row per mark.
on_quickmarks_changed(self, m) ==
    [self EXCEPT
        !.categories = Append(@, [name |-> "Quickmarks", rows |-> Qmlist(m)])]

\* __init__: the base model is empty, then _on_quickmarks_changed runs.
QuickmarkInit(m) == on_quickmarks_changed([categories |-> <<>>], m)

QuickmarkOthers ==
    <<config, option_model, value_model, cmd_dict, args_debug, command_model,
      stateconfig, mainwindow>>

InitQuickmark ==
    /\ marks \in MarksValues
    /\ quickmark_model = QuickmarkInit(marks)
    /\ last = NoCall
    /\ config = Absent /\ option_model = Absent /\ value_model = Absent
    /\ cmd_dict = Absent /\ args_debug = Absent /\ command_model = Absent
    /\ stateconfig = Absent /\ mainwindow = Absent

\* The quickmark manager stores a mark.
QuickmarkAdd ==
    \E name \in QuickmarkNames, url \in QuickmarkUrls :
        /\ MarksSet(marks, name, url) \in MarksValues
        /\ marks' = MarksSet(marks, name, url)
        /\ last' = <<[op |-> "quickmark-add"]>>
        /\ UNCHANGED quickmark_model
        /\ UNCHANGED QuickmarkOthers

\* The quickmark manager drops a mark.
QuickmarkDel ==
    \E name \in QuickmarkNames :
        /\ \E i \in DOMAIN marks : marks[i].name = name
        /\ marks' = MarksDel(marks, name)
        /\ last' = <<[op |-> "quickmark-del"]>>
        /\ UNCHANGED quickmark_model
        /\ UNCHANGED QuickmarkOthers

\* A later call of _on_quickmarks_changed.
OnQuickmarksChanged ==
    /\ Len(quickmark_model.categories) < MaxCategories
    /\ quickmark_model' = on_quickmarks_changed(quickmark_model, marks)
    /\ last' = <<[op |-> "_on_quickmarks_changed"]>>
    /\ UNCHANGED marks
    /\ UNCHANGED QuickmarkOthers

NextQuickmark ==
    \/ QuickmarkAdd
    \/ QuickmarkDel
    \/ OnQuickmarksChanged

SpecQuickmark == InitQuickmark /\ [][NextQuickmark]_vars

\* C3 as claimed: after construction and after every later
\* _on_quickmarks_changed call, the model holds exactly one category,
\* 'Quickmarks', whose rows are the manager's current marks: one row per mark,
\* the URL as name and the quickmark's name as description.
C3_OneCategoryOfCurrentMarks ==
    (last = NoCall \/ last[1].op = "_on_quickmarks_changed") =>
        /\ Len(quickmark_model.categories) = 1
        /\ quickmark_model.categories[1].name = "Quickmarks"
        /\ quickmark_model.categories[1].rows = Qmlist(marks)

----------------------------------------------------------------------------
(* CommandCompletionModel                                                  *)
(* Strings are sequences of character codes here, so that sorted() can     *)
(* compare them as Python does.                                            *)

\* The names commands are registered under first: "a", "ab", "b".
CommandNames == {<<97>>, <<97, 98>>, <<98>>}

\* A further name a command may be registered under: "q".
SecondNames == {<<113>>}

\* The descriptions a command may have: "", "d".
CommandDescs == {<<>>, <<100>>}

\* The names an alias may have ("a", as a command's, and "z") and the
\* commands it may stand for ("a", "b").
AliasNames == {<<97>>, <<122>>}
AliasTargets == {<<97>>, <<98>>}

\* The command objects.
Commands ==
    [name : CommandNames, desc : CommandDescs, hide : BOOLEAN, debug : BOOLEAN]

\* The registries cmdutils.register can build: never empty, every command
\* is registered under its own name, and a name belongs to one command.
CmdDicts ==
    UNION { UNION { { [n \in DOMAIN objs \cup DOMAIN more |->
                          IF n \in DOMAIN objs THEN objs[n]
                          ELSE objs[more[n]]] :
                      more \in UNION { [d -> DOMAIN objs] :
                                       d \in SUBSET SecondNames } } :
                    objs \in { f \in [names -> Commands] :
                               \A n \in names : f[n].name = n } } :
            names \in (SUBSET CommandNames) \ {{}} }

\* The 'aliases' sections: alias -> command line.
AliasSections ==
    UNION { [d -> AliasTargets] : d \in SUBSET AliasNames }

\* "Alias for '" and "'".
AliasPrefix == <<65, 108, 105, 97, 115, 32, 102, 111, 114, 32, 39>>
AliasSuffix == <<39>>

\* "Alias for '{}'".format(cmd)
AliasDesc(cmd) == AliasPrefix \o cmd \o AliasSuffix

\* a < b for Python strings.
RECURSIVE StrLess(_, _)
StrLess(a, b) ==
    IF a = <<>> THEN b # <<>>
    ELSE IF b = <<>> THEN FALSE
    ELSE IF Head(a) # Head(b) THEN Head(a) < Head(b)
    ELSE StrLess(Tail(a), Tail(b))

\* x < y for (name, desc) tuples.
TupleLess(x, y) ==
    \/ StrLess(x.name, y.name)
    \/ x.name = y.name /\ StrLess(x.desc, y.desc)

\* The list `s` with `x` put before the first element greater than x.
RECURSIVE Insert(_, _)
Insert(s, x) ==
    IF s = <<>> THEN <<x>>
    ELSE IF TupleLess(x, Head(s)) THEN <<x>> \o s
    ELSE <<Head(s)>> \o Insert(Tail(s), x)

\* sorted(cmdlist)
RECURSIVE sorted(_)
sorted(cmdlist) ==
    IF cmdlist = <<>> THEN <<>>
    ELSE Insert(sorted(Tail(cmdlist)), Head(cmdlist))

\* The elements of a set in some order (the order a set or a dict is
\* iterated in).
RECURSIVE Iterate(_)
Iterate(S) ==
    IF S = {} THEN <<>>
    ELSE LET x == CHOOSE y \in S : TRUE
         IN  <<x>> \o Iterate(S \ {x})

\* A faulty variant of ShownCommands: every value of cmd_dict is listed, a command
\* registered under two names twice.
ShownCommands_nodedup(dict, debug) ==
    LET names == Iterate({ n \in DOMAIN dict :
                           ~(dict[n].hide \/ (dict[n].debug /\ ~debug)) })
    IN  [i \in DOMAIN names |->
            [name |-> dict[names[i]].name, desc |-> dict[names[i]].desc]]

\* The first loop of __init__: (obj.name, obj.desc) for every object of
\* set(cmd_dict.values()) that is not hidden and not a debug command without
\* the debug argument.
ShownCommands(dict, debug) ==
    LET objs == Iterate({ obj \in {dict[n] : n \in DOMAIN dict} :
                          ~(obj.hide \/ (obj.debug /\ ~debug)) })
    IN  [i \in DOMAIN objs |-> [name |-> objs[i].name, desc |-> objs[i].desc]]

\* The second loop of __init__: (name, "Alias for '<cmd>'") per alias.
ShownAliases(aliases) ==
    LET names == Iterate(DOMAIN aliases)
    IN  [i \in DOMAIN names |->
            [name |-> names[i], desc |-> AliasDesc(aliases[names[i]])]]

\* __init__: the category "Commands" with the sorted list as its rows.
CommandCompletionInit(dict, aliases, debug) ==
    [categories |->
        <<[name |-> "Commands",
           rows |-> sorted(ShownCommands(dict, debug)
                           \o ShownAliases(aliases))]>>]

\* The model before __init__ ran: no category.
NotBuilt == [categories |-> <<>>]

CommandOthers ==
    <<option_model, value_model, marks, quickmark_model, stateconfig,
      mainwindow>>

InitCommand ==
    /\ cmd_dict \in CmdDicts
    /\ config \in { [aliases |-> a] : a \in AliasSections }
    /\ args_debug \in BOOLEAN
    /\ command_model = NotBuilt
    /\ last = NoCall
    /\ option_model = Absent /\ value_model = Absent
    /\ marks = Absent /\ quickmark_model = Absent
    /\ stateconfig = Absent /\ mainwindow = Absent

\* CommandCompletionModel() is built.
NewCommandCompletionModel ==
    /\ command_model = NotBuilt
    /\ command_model' =
          CommandCompletionInit(cmd_dict, config.aliases, args_debug)
    /\ last' = <<[op |-> "CommandCompletionModel"]>>
    /\ UNCHANGED <<config, cmd_dict, args_debug>>
    /\ UNCHANGED CommandOthers

NextCommand == NewCommandCompletionModel

SpecCommand == InitCommand /\ [][NextCommand]_vars

\* The command objects that are to be listed.
VisibleCommands ==
    { obj \in {cmd_dict[n] : n \in DOMAIN cmd_dict} :
        ~obj.hide /\ (obj.debug => args_debug) }

\* How many indexes of the sequence `rows` hold `r`.
Count(rows, r) == Cardinality({ i \in DOMAIN rows : rows[i] = r })

\* C9: the 'Commands' category holds one row (name, desc) per distinct
\* command object that is neither hidden nor a debug command without the
\* debug argument, one row (alias, "Alias for '<cmd>'") per alias, and no
\* other row; the rows are in ascending order of name.
C9_CommandsListed ==
    command_model # NotBuilt =>
        LET rows == command_model.categories[1].rows
            expected ==
                { [name |-> obj.name, desc |-> obj.desc] :
                    obj \in VisibleCommands }
                \cup { [name |-> a, desc |-> AliasDesc(config.aliases[a])] :
                        a \in DOMAIN config.aliases }
        IN  /\ Len(command_model.categories) = 1
            /\ command_model.categories[1].name = "Commands"
            /\ Len(rows) = Cardinality(VisibleCommands)
                           + Cardinality(DOMAIN config.aliases)
            /\ \A r \in expected : Count(rows, r) = 1
            /\ \A i \in DOMAIN rows : rows[i] \in expected
            /\ \A i, j \in DOMAIN rows :
                  i < j => ~StrLess(rows[j].name, rows[i].name)

\* C9's case: a model built from a registry that holds a hidden command, a
\* debug command left out, a command registered under two names, and an
\* alias; it lists more than one row.
C9_Witness ==
    /\ command_model # NotBuilt
    /\ ~args_debug
    /\ \E n \in DOMAIN cmd_dict : cmd_dict[n].hide
    /\ \E n \in DOMAIN cmd_dict : cmd_dict[n].debug /\ ~cmd_dict[n].hide
    /\ \E n \in DOMAIN cmd_dict :
          /\ cmd_dict[n].name # n
          /\ cmd_dict[n] \in VisibleCommands
    /\ DOMAIN config.aliases = AliasNames
    /\ Len(command_model.categories[1].rows) = 3

----------------------------------------------------------------------------
(* MainWindow.__init__                                                     *)
(* Strings are sequences of character codes and rectangles are records     *)
(* (x, y, w, h), as QRect(x, y, w, h).                                     *)

\* The longest value stored under stateconfig['geometry']['mainwindow'].
MaxStoredLen == 4

\* The characters a stored value is made of: "A", "B" and "!".
StoredChars == {65, 66, 33}

\* The stored values.
StoredStrings == UNION { [1..n -> StoredChars] : n \in 0..MaxStoredLen }

\* The state configs: without a 'geometry' section, with a 'geometry'
\* section without the 'mainwindow' key, and with a stored value.
StateConfigs ==
    {<<>>} \cup {[geometry |-> <<>>]}
    \cup { [geometry |-> [mainwindow |-> v]] : v \in StoredStrings }

\* The place of a character in the base64 alphabet, -1 when it has none.
B64Index(c) ==
    IF c >= 65 /\ c <= 90 THEN c - 65
    ELSE IF c >= 97 /\ c <= 122 THEN c - 71
    ELSE IF c >= 48 /\ c <= 57 THEN c + 4
    ELSE IF c = 43 THEN 62
    ELSE IF c = 47 THEN 63
    ELSE -1

\* Whether b64decode(v, validate=True) accepts v (no padding is modelled):
\* every character is of the alphabet and the length is a multiple of 4.
B64Valid(v) ==
    /\ \A i \in DOMAIN v : B64Index(v[i]) >= 0
    /\ Len(v) % 4 = 0

\* QRect(50, 50, 800, 600)
DefaultGeometry == [x |-> 50, y |-> 50, w |-> 800, h |-> 600]

\* The geometry of a widget nothing was set on.
UnsetGeometry == [x |-> 0, y |-> 0, w |-> 640, h |-> 480]

\* The geometries restoreGeometry may restore.
SavedGeometries ==
    [x : {0, 50}, y : {0}, w : {800, 1024}, h : {600, 601, 768}]

\* What restoreGeometry(geom) may do: return True, return False, raise
\* KeyError.
RestoreOutcomes == {"True", "False", "KeyError"}

\* The window before __init__ ran.
NewWindow ==
    [pc |-> "new", geometry |-> UnsetGeometry, restored |-> FALSE,
     raised |-> "none"]

\* _set_default_geometry()
set_default_geometry(self) == [self EXCEPT !.geometry = DefaultGeometry]

\* Lines 59-64: the else branch of the outer try.  `outcome` is what
\* restoreGeometry does and `saved` the geometry it restores.  After the
\* KeyError handler `ok` was never bound, and "if not ok" raises
\* UnboundLocalError.
restore(self, outcome, saved) ==
    IF outcome = "KeyError"
    THEN [set_default_geometry(self) EXCEPT !.raised = "UnboundLocalError"]
    ELSE IF outcome = "True"
    THEN [self EXCEPT !.geometry = saved, !.restored = TRUE]
    ELSE set_default_geometry(self)

\* __init__ up to line 64, run on the state config `conf`.
load_geometry(self, conf, outcome, saved) ==
    IF \/ "geometry" \notin DOMAIN conf
       \/ "mainwindow" \notin DOMAIN conf.geometry
       \/ ~B64Valid(conf.geometry.mainwindow)
    THEN \* KeyError or binascii.Error
         set_default_geometry(self)
    ELSE restore(self, outcome, saved)

\* __init__: the geometry, then the layout and the child widgets (which an
\* exception keeps from being made).
MainWindowInit(self, conf, outcome, saved) ==
    LET w == load_geometry(self, conf, outcome, saved)
    IN  IF w.raised # "none"
        THEN [w EXCEPT !.pc = "raised"]
        ELSE [w EXCEPT !.pc = "done"]

InitOthers ==
    <<config, option_model, value_model, marks, quickmark_model, cmd_dict,
      args_debug, command_model>>

InitInit ==
    /\ stateconfig \in StateConfigs
    /\ mainwindow = NewWindow
    /\ last = NoCall
    /\ config = Absent /\ option_model = Absent /\ value_model = Absent
    /\ marks = Absent /\ quickmark_model = Absent
    /\ cmd_dict = Absent /\ args_debug = Absent /\ command_model = Absent

\* MainWindow() is built.
NewMainWindow ==
    \E outcome \in RestoreOutcomes, saved \in SavedGeometries :
        /\ mainwindow.pc = "new"
        /\ mainwindow' = MainWindowInit(mainwindow, stateconfig, outcome, saved)
        /\ last' = <<[op |-> "MainWindow", outcome |-> outcome]>>
        /\ UNCHANGED stateconfig
        /\ UNCHANGED InitOthers

NextInit == NewMainWindow

SpecInit == InitInit /\ [][NextInit]_vars

\* C6 as claimed: on every path __init__ completes without raising, and the
\* window's geometry is the restored one exactly when restoreGeometry
\* returned true and QRect(50, 50, 800, 600) otherwise.
C6_GeometryDefaulted ==
    mainwindow.pc # "new" =>
        /\ mainwindow.raised = "none"
        /\ mainwindow.pc = "done"
        /\ ~mainwindow.restored => mainwindow.geometry = DefaultGeometry
        /\ mainwindow.restored => mainwindow.geometry \in SavedGeometries

----------------------------------------------------------------------------
(* MainWindow after __init__: resizing, config changes and the inspector.  *)

\* The sizes the window is resized to.
WindowWidths == {800, 1024}
WindowHeights == {600, 601}

\* The geometries __init__ may leave: the default one or a restored one.
StartGeometries == {DefaultGeometry, [x |-> 0, y |-> 0, w |-> 1024, h |-> 601]}

\* The height the status bar has.
StatusHeights == {20}

\* "%"
Percent == 37

\* The raw values of completion -> height: "250", "50%", "33%".
HeightValues == {<<50, 53, 48>>, <<53, 48, Percent>>, <<51, 51, Percent>>}

\* The raw values of a boolean option.
BoolValues == {"true", "false"}

\* The options of the window's config and the values each may hold.
WindowOptions ==
    [completion |-> [height |-> HeightValues, show |-> BoolValues],
     webkit |-> ("developer-extras-enabled" :> BoolValues)]

\* int(s) for a string of digits.
RECURSIVE int(_)
int(s) ==
    IF s = <<>> THEN 0 ELSE 10 * int(SubSeq(s, 1, Len(s) - 1)) + (s[Len(s)] - 48)

\* str(n) for n >= 0.
RECURSIVE str(_)
str(n) ==
    IF n < 10 THEN <<48 + n>> ELSE str(n \div 10) \o <<48 + (n % 10)>>

\* s.endswith('%')
endswith_percent(s) == s # <<>> /\ s[Len(s)] = Percent

\* s.rstrip('%')
RECURSIVE rstrip_percent(_)
rstrip_percent(s) ==
    IF endswith_percent(s) THEN rstrip_percent(SubSeq(s, 1, Len(s) - 1)) ELSE s

\* str(config.get('completion', 'height')): the option's type keeps a
\* percentage as the string it is and turns anything else into an int.
confheight_of(cfg) ==
    LET raw == cfg.completion.height
    IN  IF endswith_percent(raw) THEN raw ELSE str(int(raw))

\* config.get('webkit', 'developer-extras-enabled')
developer_extras(cfg) == cfg.webkit["developer-extras-enabled"] = "true"

\* int(x) for the float x = num / 100, as done when a float is passed where
\* Qt takes an int: the fraction is dropped.
Truncate100(num) ==
    IF num >= 0 THEN num \div 100 ELSE -((-num) \div 100)

\* QVBoxLayout: the status bar takes the bottom of the window.
StatusGeometry(geometry, sh) ==
    [x |-> 0, y |-> geometry.h - sh, w |-> geometry.w, h |-> sh]

\* QVBoxLayout: the height the shown inspector gets.
InspectorHeight(geometry, sh) == (geometry.h - sh) \div 2

\* QRect.topRight()
topRight(r) == [x |-> r.x + r.w - 1, y |-> r.y]

\* resize_completion(): QRect(topleft, bottomright), kept as its two
\* corners.  With a percentage, height is the float
\* self.height() * perc / 100, and topleft's y the truncated
\* self.height() - self.status.height() - height.
resize_completion(self, cfg) ==
    LET confheight == confheight_of(cfg)
        top == IF endswith_percent(confheight)
               THEN Truncate100(100 * (self.geometry.h - self.status.h)
                                - self.geometry.h * int(rstrip_percent(confheight)))
               ELSE self.geometry.h - self.status.h - int(confheight)
        shift == IF self.inspector_visible THEN self.inspector_height ELSE 0
        tr == topRight(self.status)
    IN  [self EXCEPT !.completion =
            [topleft |-> [x |-> 0, y |-> top - shift],
             bottomright |-> [x |-> tr.x, y |-> tr.y - shift]]]

\* What an operation of the window did: whether the inspector was visible
\* and developer-extras enabled when it began, whether it called
\* resize_completion, and whether it displayed an error.
WinCall(op, self, cfg, section, option, recomputed, error) ==
    [op |-> op, section |-> section, option |-> option,
     visible |-> self.inspector_visible, dev |-> developer_extras(cfg),
     recomputed |-> recomputed, error |-> error]

\* A faulty variant of on_config_changed: the completion is never resized.
on_config_changed_never(self, cfg, section, option) ==
    [self |-> self,
     call |-> WinCall("on_config_changed", self, cfg, section, option,
                      section = "completion" /\ option = "height", FALSE)]

\* on_config_changed(section, option)
on_config_changed(self, cfg, section, option) ==
    IF section = "completion" /\ option = "height"
    THEN [self |-> resize_completion(self, cfg),
          call |-> WinCall("on_config_changed", self, cfg, section, option,
                           TRUE, FALSE)]
    ELSE [self |-> self,
          call |-> WinCall("on_config_changed", self, cfg, section, option,
                           FALSE, FALSE)]

\* inspector.show(): the layout gives the inspector its place.
show_inspector(self) ==
    [self EXCEPT !.inspector_visible = TRUE,
                 !.inspector_height = InspectorHeight(self.geometry, self.status.h)]

\* inspector.hide()
hide_inspector(self) == [self EXCEPT !.inspector_visible = FALSE]

\* "Please enable developer-extras before using the webinspector!"
EnableMessage == "Please enable developer-extras before using the webinspector!"

\* A faulty variant of toggle_inspector: developer-extras is not looked at.
toggle_inspector_nocheck(self, cfg) ==
    IF self.inspector_visible
    THEN [self |-> resize_completion(hide_inspector(self), cfg),
          call |-> WinCall("toggle_inspector", self, cfg, None, None,
                           TRUE, FALSE)]
    ELSE [self |-> resize_completion(show_inspector(self), cfg),
          call |-> WinCall("toggle_inspector", self, cfg, None, None,
                           TRUE, FALSE)]

\* toggle_inspector()
toggle_inspector(self, cfg) ==
    IF self.inspector_visible
    THEN [self |-> resize_completion(hide_inspector(self), cfg),
          call |-> WinCall("toggle_inspector", self, cfg, None, None,
                           TRUE, FALSE)]
    ELSE IF ~developer_extras(cfg)
    THEN [self |-> [self EXCEPT !.status.error = EnableMessage],
          call |-> WinCall("toggle_inspector", self, cfg, None, None,
                           FALSE, TRUE)]
    ELSE [self |-> resize_completion(show_inspector(self), cfg),
          call |-> WinCall("toggle_inspector", self, cfg, None, None,
                           TRUE, FALSE)]

\* update_inspector(): the page is set; a visible inspector is hidden and
\* shown again.
update_inspector(self, cfg) ==
    [self |-> IF self.inspector_visible
              THEN show_inspector(hide_inspector(self))
              ELSE self,
     call |-> WinCall("update_inspector", self, cfg, None, None, FALSE, FALSE)]

\* resizeEvent(e): the window has its new size and the layout has placed the
\* status bar and the inspector; then resize_completion().
resizeEvent(self, cfg, w, h) ==
    LET g == [self.geometry EXCEPT !.w = w, !.h = h]
        laid == [self EXCEPT
                    !.geometry = g,
                    !.status = [StatusGeometry(g, self.status.h) @@ self.status
                                EXCEPT !.error = self.status.error],
                    !.inspector_height =
                        IF self.inspector_visible
                        THEN InspectorHeight(g, self.status.h)
                        ELSE @,
                    !.resized = TRUE]
    IN  [self |-> resize_completion(laid, cfg),
         call |-> WinCall("resizeEvent", self, cfg, None, None, TRUE, FALSE)]

\* The window as __init__ leaves it: the geometry set, the inspector hidden,
\* the completion where nothing put it yet.
BuiltWindow(geometry, sh) ==
    [geometry |-> geometry,
     status |-> StatusGeometry(geometry, sh) @@ [error |-> ""],
     inspector_visible |-> FALSE,
     inspector_height |-> 0,
     completion |-> [topleft |-> [x |-> 0, y |-> 0],
                     bottomright |-> [x |-> 99, y |-> 29]],
     resized |-> FALSE]

\* The calls `last` keeps in SpecWindow: those of the last two operations.
Remember(calls, call) ==
    IF calls = <<>> THEN <<call>> ELSE <<calls[Len(calls)], call>>

WindowOthers ==
    <<option_model, value_model, marks, quickmark_model, cmd_dict,
      args_debug, command_model, stateconfig>>

InitWindow ==
    /\ config \in { [completion |-> [height |-> hv, show |-> "true"],
                     webkit |-> ("developer-extras-enabled" :> dv)] :
                    hv \in HeightValues, dv \in BoolValues }
    /\ \E g \in StartGeometries, sh \in StatusHeights :
          mainwindow = BuiltWindow(g, sh)
    /\ last = NoCall
    /\ option_model = Absent /\ value_model = Absent
    /\ marks = Absent /\ quickmark_model = Absent
    /\ cmd_dict = Absent /\ args_debug = Absent /\ command_model = Absent
    /\ stateconfig = Absent

\* The window is resized.
ResizeEvent ==
    \E w \in WindowWidths, h \in WindowHeights :
        LET r == resizeEvent(mainwindow, config, w, h)
        IN  /\ mainwindow' = r.self
            /\ last' = Remember(last, r.call)
            /\ UNCHANGED config
            /\ UNCHANGED WindowOthers

\* config.set(section, option, value), and the changed signal's slot
\* on_config_changed(section, option).
WindowConfigChanged ==
    \E section \in DOMAIN WindowOptions :
        \E option \in DOMAIN WindowOptions[section] :
            \E value \in WindowOptions[section][option] :
                LET cfg == [config EXCEPT ![section][option] = value]
                    r == on_config_changed(mainwindow, cfg, section, option)
                IN  /\ config' = cfg
                    /\ mainwindow' = r.self
                    /\ last' = Remember(last, r.call)
                    /\ UNCHANGED WindowOthers

\* The command 'inspector'.
ToggleInspector ==
    LET r == toggle_inspector(mainwindow, config)
    IN  /\ mainwindow' = r.self
        /\ last' = Remember(last, r.call)
        /\ UNCHANGED config
        /\ UNCHANGED WindowOthers

\* The page changed.
UpdateInspector ==
    LET r == update_inspector(mainwindow, config)
    IN  /\ mainwindow' = r.self
        /\ last' = Remember(last, r.call)
        /\ UNCHANGED config
        /\ UNCHANGED WindowOthers

NextWindow ==
    \/ ResizeEvent
    \/ WindowConfigChanged
    \/ ToggleInspector
    \/ UpdateInspector

SpecWindow == InitWindow /\ [][NextWindow]_vars

\* The operation that ran last.
LastCall == last[Len(last)]

\* The completion's top edge as C5 gives it.  For 'p%' the claimed value
\* height - status height - height * p / 100 is taken exactly (times 100) or,
\* read as whole pixels, with height * p / 100 rounded down.
C5_TopAsClaimed(self, cfg) ==
    LET confheight == confheight_of(cfg)
        shift == IF self.inspector_visible THEN self.inspector_height ELSE 0
        top == self.completion.topleft.y
        perc == int(rstrip_percent(confheight))
    IN  IF endswith_percent(confheight)
        THEN \/ 100 * top = 100 * (self.geometry.h - self.status.h - shift)
                            - self.geometry.h * perc
             \/ top = self.geometry.h - self.status.h - shift
                      - (self.geometry.h * perc) \div 100
        ELSE top = self.geometry.h - self.status.h - shift - int(confheight)

\* C5 as claimed: after every operation that called resize_completion (a
\* resizeEvent among them) the completion's bottom-right corner is the status
\* bar's top-right corner and its top edge is at window height - status bar
\* height - h, h the configured number of pixels or window height * p / 100;
\* with the inspector visible both are moved up by the inspector's height.
C5_CompletionAboveStatus ==
    (last # NoCall /\ LastCall.recomputed) =>
        LET shift == IF mainwindow.inspector_visible
                     THEN mainwindow.inspector_height ELSE 0
            tr == topRight(mainwindow.status)
        IN  /\ mainwindow.completion.bottomright = [x |-> tr.x, y |-> tr.y - shift]
            /\ mainwindow.completion.topleft.x = 0
            /\ C5_TopAsClaimed(mainwindow, config)

\* C4: toggle_inspector hides a visible inspector; it shows a hidden one
\* when developer-extras is enabled; otherwise the inspector stays hidden, the
\* error is displayed on the status bar and the completion's geometry is not
\* recomputed.  The inspector goes from hidden to visible only in a toggle
\* made with developer-extras enabled, and two successive toggles made with
\* it enabled restore the visibility.
C4_ToggleInspector ==
    [][LET call == last'[Len(last')]
           was == mainwindow.inspector_visible
           now == mainwindow'.inspector_visible
           dev == developer_extras(config)
       IN  /\ call.op = "toggle_inspector" =>
                /\ was => ~now
                /\ (~was /\ dev) => now
                /\ (~was /\ ~dev) =>
                      /\ ~now
                      /\ call.error
                      /\ mainwindow'.status.error = EnableMessage
                      /\ ~call.recomputed
                      /\ mainwindow'.completion = mainwindow.completion
           /\ (~was /\ now) => (call.op = "toggle_inspector" /\ dev)
           /\ (/\ Len(last') = 2
               /\ last'[1].op = "toggle_inspector" /\ last'[1].dev
               /\ last'[2].op = "toggle_inspector" /\ last'[2].dev)
              => now = last'[1].visible]_vars

\* C4's case: two successive toggles with developer-extras enabled, the
\* first of which showed the inspector, after a toggle was refused.
C4_Witness ==
    /\ Len(last) = 2
    /\ last[1].op = "toggle_inspector" /\ last[1].dev /\ ~last[1].visible
    /\ last[2].op = "toggle_inspector" /\ last[2].dev /\ last[2].visible
    /\ ~mainwindow.inspector_visible
    /\ mainwindow.status.error = EnableMessage

\* C10: once the first resizeEvent was handled, the completion's geometry is
\* what resize_completion computes from the current window, status bar,
\* inspector and config; on_config_changed recomputes it exactly for
\* ('completion', 'height') and leaves it as it is for every other pair;
\* update_inspector leaves the inspector's visibility and the completion's
\* geometry as they are.
C10_CompletionInSync ==
    [][LET call == last'[Len(last')]
       IN  /\ mainwindow'.resized =>
                mainwindow'.completion =
                    resize_completion(mainwindow', config').completion
           /\ call.op = "on_config_changed" =>
                /\ call.recomputed <=>
                      (call.section = "completion" /\ call.option = "height")
                /\ ~call.recomputed =>
                      mainwindow'.completion = mainwindow.completion
                /\ call.recomputed =>
                      mainwindow'.completion =
                          resize_completion(mainwindow, config').completion
           /\ call.op = "update_inspector" =>
                /\ mainwindow'.inspector_visible = mainwindow.inspector_visible
                /\ mainwindow'.completion = mainwindow.completion]_vars

\* C10's case: after a resizeEvent, with the inspector shown, the configured
\* height was changed and the completion moved with it.
C10_Witness ==
    /\ mainwindow.resized
    /\ mainwindow.inspector_visible
    /\ Len(last) = 2
    /\ last[1].op = "on_config_changed" /\ ~last[1].recomputed
    /\ last[2].op = "on_config_changed" /\ last[2].recomputed
    /\ mainwindow.completion.topleft.y # mainwindow.completion.bottomright.y - 250
    /\ mainwindow.completion =
          resize_completion(mainwindow, config).completion

====
